---- MODULE Spec2Model ----
(***************************************************************************)
(* A model of electrumx/lib/script.py (the Script walkers get_ops,         *)
(* get_push_input_refs, zero_refs) and electrumx/lib/tx.py (the record     *)
(* serializers and the Deserializer).                                      *)
(*                                                                         *)
(* Bytes are the integers 0..255 and a bytes object is a sequence of them. *)
(* Python positions are 0-based: script[n] is script[n + 1] here and the   *)
(* slice script[a:b] is Slice(script, a, b).                               *)
(***************************************************************************)
EXTENDS Integers, Sequences, FiniteSets, TLC

VARIABLES
    script,   \* the script (or pk_script) an operation is called on
    tx,       \* the Tx record (or TxOutput) whose serialization is in binary
    binary,   \* Deserializer.binary
    start,    \* the cursor the Deserializer was constructed with
    cursor,   \* Deserializer.cursor
    result    \* what the call returned or raised; fn names the call

vars == <<script, tx, binary, start, cursor, result>>

(***************************************************************************)
(* Bounds of the explored inputs.                                          *)
(***************************************************************************)
MaxPieces == 3
MaxInputs == 1
MaxOutputs == 2
MaxState == 2

(***************************************************************************)
(* Opcode values (script.py, the OpCodes enumeration).                     *)
(***************************************************************************)
OP_PUSHDATA1 == 76
OP_PUSHDATA2 == 77
OP_PUSHDATA4 == 78
OP_RETURN == 106
OP_CHECKSIG == 172
OP_CHECKSIGVERIFY == 173
OP_CHECKMULTISIG == 174
OP_CHECKMULTISIGVERIFY == 175
OP_PUSHINPUTREF == 208
OP_REQUIREINPUTREF == 209
OP_DISALLOWPUSHINPUTREF == 210
OP_DISALLOWPUSHINPUTREFSIBLING == 211
OP_PUSHINPUTREFSINGLETON == 216

\* dlen = 36, the payload length of a reference opcode
RefLen == 36

(***************************************************************************)
(* Python's bytes operations.                                              *)
(***************************************************************************)
\* b[a:b], with Python's clipping of a slice to the object
Slice(b, from, to) ==
    LET hi == IF to > Len(b) THEN Len(b) ELSE to
    IN IF from >= hi THEN <<>> ELSE SubSeq(b, from + 1, hi)

\* n as k little-endian bytes
LEBytesOf(n, k) == [i \in 1..k |-> (n \div (256 ^ (i - 1))) % 256]

\* bytes(n): n zero bytes
ZeroBytes(n) == [i \in 1..n |-> 0]

\* The largest length the model's integers hold; a decoded length is only ever
\* compared with the length of a buffer, which is far below it.
MaxInt == 127 * 16777216 + 16777215

\* struct '<H' and '<I' on a buffer of exactly the field's size (the callers
\* check the size: unpack_from raises struct.error on a shorter buffer).
unpack_le_uint16_from(b) == b[1] + 256 * b[2]

unpack_le_uint32_from(b) ==
    IF b[4] >= 128 THEN MaxInt
    ELSE b[1] + 256 * b[2] + 65536 * b[3] + 16777216 * b[4]

(***************************************************************************)
(* Results of the walkers: a value, or the ScriptError raised.             *)
(***************************************************************************)
ScriptError(msg) == [ok |-> FALSE, err |-> msg]

Bare(op) == [op |-> op, push |-> FALSE, data |-> <<>>]
Pair(op, data) == [op |-> op, push |-> TRUE, data |-> data]

IsRefOp(op) ==
    \/ op = OP_PUSHINPUTREF
    \/ op = OP_REQUIREINPUTREF
    \/ op = OP_DISALLOWPUSHINPUTREF
    \/ op = OP_DISALLOWPUSHINPUTREFSIBLING
    \/ op = OP_PUSHINPUTREFSINGLETON

IsSigOp(op) ==
    \/ op = OP_CHECKSIG
    \/ op = OP_CHECKSIGVERIFY
    \/ op = OP_CHECKMULTISIG
    \/ op = OP_CHECKMULTISIGVERIFY

(***************************************************************************)
(* The length header of a push, "if op <= OP_PUSHDATA4": the declared      *)
(* length dlen and the position n after the length bytes, or the exception *)
(* of script[n] (IndexError) or of the unpack (struct.error).              *)
(***************************************************************************)
\* Mutant: the length bytes of OP_PUSHDATA1/2/4 are read and not stepped over.
push_dlen_no_advance(s, op, n) ==
    IF op < OP_PUSHDATA1 THEN [ok |-> TRUE, dlen |-> op, n |-> n]
    ELSE IF op = OP_PUSHDATA1 THEN
        IF n >= Len(s) THEN [ok |-> FALSE, dlen |-> 0, n |-> n]
        ELSE [ok |-> TRUE, dlen |-> s[n + 1], n |-> n]
    ELSE IF op = OP_PUSHDATA2 THEN
        IF Len(Slice(s, n, n + 2)) < 2 THEN [ok |-> FALSE, dlen |-> 0, n |-> n]
        ELSE [ok |-> TRUE, dlen |-> unpack_le_uint16_from(Slice(s, n, n + 2)),
              n |-> n]
    ELSE IF op = OP_PUSHDATA4 THEN
        IF Len(Slice(s, n, n + 4)) < 4 THEN [ok |-> FALSE, dlen |-> 0, n |-> n]
        ELSE [ok |-> TRUE, dlen |-> unpack_le_uint32_from(Slice(s, n, n + 4)),
              n |-> n]
    ELSE [ok |-> FALSE, dlen |-> 0, n |-> n]

push_dlen(s, op, n) ==
    IF op < OP_PUSHDATA1 THEN [ok |-> TRUE, dlen |-> op, n |-> n]
    ELSE IF op = OP_PUSHDATA1 THEN
        IF n >= Len(s) THEN [ok |-> FALSE, dlen |-> 0, n |-> n]
        ELSE [ok |-> TRUE, dlen |-> s[n + 1], n |-> n + 1]
    ELSE IF op = OP_PUSHDATA2 THEN
        IF Len(Slice(s, n, n + 2)) < 2 THEN [ok |-> FALSE, dlen |-> 0, n |-> n]
        ELSE [ok |-> TRUE, dlen |-> unpack_le_uint16_from(Slice(s, n, n + 2)),
              n |-> n + 2]
    ELSE IF op = OP_PUSHDATA4 THEN
        IF Len(Slice(s, n, n + 4)) < 4 THEN [ok |-> FALSE, dlen |-> 0, n |-> n]
        ELSE [ok |-> TRUE, dlen |-> unpack_le_uint32_from(Slice(s, n, n + 4)),
              n |-> n + 4]
    ELSE [ok |-> FALSE, dlen |-> 0, n |-> n]

\* get_ops's chain has one more elif, for the reference opcodes, inside the
\* same "if op <= OP_PUSHDATA4" block.
get_ops_dlen(s, op, n) ==
    IF op < OP_PUSHDATA1 \/ op = OP_PUSHDATA1 \/ op = OP_PUSHDATA2
       \/ op = OP_PUSHDATA4
    THEN push_dlen(s, op, n)
    ELSE IF IsRefOp(op) THEN [ok |-> TRUE, dlen |-> RefLen, n |-> n]
    ELSE [ok |-> FALSE, dlen |-> 0, n |-> n]

(***************************************************************************)
(* Script.get_ops                                                          *)
(***************************************************************************)
RECURSIVE get_ops_loop(_, _, _)
get_ops_loop(s, n, ops) ==
    IF ~(n < Len(s)) THEN [ok |-> TRUE, ops |-> ops]
    ELSE LET op == s[n + 1]
             n1 == n + 1
         IN IF op <= OP_PUSHDATA4 THEN
                LET h == get_ops_dlen(s, op, n1)
                IN IF ~h.ok THEN ScriptError("truncated script")
                   ELSE IF h.dlen > Len(s) - h.n THEN ScriptError("truncated script")
                   ELSE get_ops_loop(s, h.n + h.dlen,
                                     Append(ops, Pair(op, Slice(s, h.n, h.n + h.dlen))))
            ELSE get_ops_loop(s, n1, Append(ops, Bare(op)))

get_ops(s) == get_ops_loop(s, 0, <<>>)

(***************************************************************************)
(* Script.get_push_input_refs                                              *)
(***************************************************************************)
\* Mutant: every reference opcode contributes a reference.
is_push_ref_any(op) == IsRefOp(op)

\* "if op == OP_PUSHINPUTREF or op == OP_PUSHINPUTREFSINGLETON"
is_push_ref(op) == op = OP_PUSHINPUTREF \/ op = OP_PUSHINPUTREFSINGLETON

RECURSIVE get_push_input_refs_loop(_, _, _, _, _)
get_push_input_refs_loop(s, n, all_refs, normal_refs, singleton_refs) ==
    IF ~(n < Len(s)) THEN
        [ok |-> TRUE, all_refs |-> all_refs, normal_refs |-> normal_refs,
         singleton_refs |-> singleton_refs]
    ELSE LET op == s[n + 1]
             n1 == n + 1
             h == IF op <= OP_PUSHDATA4 THEN push_dlen(s, op, n1)
                  ELSE [ok |-> TRUE, dlen |-> 0, n |-> n1]
         IN IF ~h.ok \/ h.dlen > Len(s) - h.n THEN
                ScriptError("get_push_input_refs script")
            ELSE LET n2 == h.n + h.dlen
                     ref == Slice(s, n2, n2 + RefLen)
                     isPush == is_push_ref(op)
                 IN IF IsRefOp(op) THEN
                        IF RefLen > Len(s) - n2 THEN
                            ScriptError("get_push_input_refs script")
                        ELSE get_push_input_refs_loop(s, n2 + RefLen,
                                 IF isPush THEN Append(all_refs, ref) ELSE all_refs,
                                 IF isPush /\ op = OP_PUSHINPUTREF
                                 THEN Append(normal_refs, ref) ELSE normal_refs,
                                 IF isPush /\ op # OP_PUSHINPUTREF
                                    /\ op = OP_PUSHINPUTREFSINGLETON
                                 THEN Append(singleton_refs, ref) ELSE singleton_refs)
                    ELSE get_push_input_refs_loop(s, n2, all_refs, normal_refs,
                                                  singleton_refs)

get_push_input_refs(s) == get_push_input_refs_loop(s, 0, <<>>, <<>>, <<>>)

(***************************************************************************)
(* Script.zero_refs                                                        *)
(***************************************************************************)
\* Mutant: the rewritten buffer is returned whether or not a signature check
\* was seen.
zero_refs_return_rewritten(s, ops, requires_sig) == [ok |-> TRUE, out |-> ops]

\* "if requires_sig: return bytes(ops)" / "return script"
zero_refs_return(s, ops, requires_sig) ==
    IF requires_sig THEN [ok |-> TRUE, out |-> ops] ELSE [ok |-> TRUE, out |-> s]

RECURSIVE zero_refs_loop(_, _, _, _)
zero_refs_loop(s, n, ops, requires_sig) ==
    IF ~(n < Len(s)) THEN zero_refs_return(s, ops, requires_sig)
    ELSE LET op == s[n + 1]
             ops1 == Append(ops, op)
             n1 == n + 1
             sig == requires_sig \/ IsSigOp(op)
             h == IF op <= OP_PUSHDATA4 THEN push_dlen(s, op, n1)
                  ELSE [ok |-> TRUE, dlen |-> 0, n |-> n1]
         IN IF ~h.ok \/ h.dlen > Len(s) - h.n THEN ScriptError("truncated script")
            ELSE LET n2 == h.n + h.dlen
                     ops2 == ops1 \o Slice(s, h.n, h.n + h.dlen)
                 IN IF IsRefOp(op) THEN
                        IF RefLen > Len(s) - n2 THEN ScriptError("truncated script")
                        ELSE zero_refs_loop(s, n2 + RefLen,
                                            ops2 \o ZeroBytes(RefLen), sig)
                    ELSE zero_refs_loop(s, n2, ops2, sig)

zero_refs(s) == zero_refs_loop(s, 0, <<>>, FALSE)

(***************************************************************************)
(* The scripts explored: every concatenation of at most MaxPieces pieces.  *)
(* The pieces are single opcodes, push headers, a direct push whose        *)
(* payload holds a signature-check byte and a reference byte, a reference  *)
(* opcode alone, and the reference opcodes with a 36-byte payload          *)
(* (PayloadA reads as one push of 35 bytes, PayloadB as the OP_CHECKSIG    *)
(* and OP_PUSHINPUTREF bytes and a push of 33 bytes).                      *)
(***************************************************************************)
PayloadA == [i \in 1..RefLen |-> IF i = 1 THEN 35 ELSE 170]
PayloadB == [i \in 1..RefLen |-> IF i = 1 THEN OP_CHECKSIG
                                 ELSE IF i = 2 THEN OP_PUSHINPUTREF
                                 ELSE IF i = 3 THEN 33 ELSE 81]

Pieces ==
    { <<118>>, <<OP_CHECKSIG>>, <<OP_CHECKMULTISIGVERIFY>>, <<0>>,
      <<2, OP_CHECKSIG, OP_PUSHINPUTREF>>,
      <<OP_PUSHDATA1>>, <<OP_PUSHDATA2>>, <<OP_PUSHDATA4>>,
      <<OP_PUSHDATA2, 1, 0>>, <<OP_PUSHDATA4, 1, 0, 0, 0>>,
      <<OP_PUSHINPUTREF>>,
      <<OP_PUSHINPUTREF>> \o PayloadA,
      <<OP_PUSHINPUTREFSINGLETON>> \o PayloadB,
      <<OP_REQUIREINPUTREF>> \o PayloadB,
      <<OP_DISALLOWPUSHINPUTREF>> \o PayloadA,
      <<OP_DISALLOWPUSHINPUTREFSIBLING>> \o PayloadA }

RECURSIVE Concat(_)
Concat(ps) == IF ps = <<>> THEN <<>> ELSE Head(ps) \o Concat(Tail(ps))

Scripts == { Concat(ps) : ps \in UNION { [1..k -> Pieces] : k \in 0..MaxPieces } }

NoResult == [fn |-> "none", val |-> [ok |-> FALSE]]

(***************************************************************************)
(* The script walkers as a state machine: a script is given, and one of    *)
(* the three class methods is called on it.                                *)
(***************************************************************************)
InitScript ==
    /\ script \in Scripts
    /\ result = NoResult
    /\ tx = <<>>
    /\ binary = <<>>
    /\ start = 0
    /\ cursor = 0

CallGetOps ==
    /\ result.fn = "none"
    /\ result' = [fn |-> "get_ops", val |-> get_ops(script)]
    /\ UNCHANGED <<script, tx, binary, start, cursor>>

CallGetPushInputRefs ==
    /\ result.fn = "none"
    /\ result' = [fn |-> "get_push_input_refs", val |-> get_push_input_refs(script)]
    /\ UNCHANGED <<script, tx, binary, start, cursor>>

CallZeroRefs ==
    /\ result.fn = "none"
    /\ result' = [fn |-> "zero_refs", val |-> zero_refs(script)]
    /\ UNCHANGED <<script, tx, binary, start, cursor>>

NextScript == CallGetOps \/ CallGetPushInputRefs \/ CallZeroRefs

SpecScript == InitScript /\ [][NextScript]_vars

(***************************************************************************)
(* The framing of a script as the specification states it, the vocabulary  *)
(* of the properties below: an item starts at an opcode position pos, has  *)
(* hdr length bytes (OP_PUSHDATA1/2/4) and dlen payload bytes, 36 for a    *)
(* reference opcode.  Framing stops at the first item that does not fit.   *)
(***************************************************************************)
RECURSIVE LEValue(_)
LEValue(b) ==
    IF b = <<>> THEN 0
    ELSE LET r == LEValue(Tail(b))
         IN IF r >= 8388608 THEN MaxInt ELSE Head(b) + 256 * r

HdrLen(op) ==
    IF op = OP_PUSHDATA1 THEN 1
    ELSE IF op = OP_PUSHDATA2 THEN 2
    ELSE IF op = OP_PUSHDATA4 THEN 4
    ELSE 0

RECURSIVE FrameFrom(_, _)
FrameFrom(s, n) ==
    IF n >= Len(s) THEN <<>>
    ELSE LET op == s[n + 1]
             hdr == HdrLen(op)
             dlen == IF op < OP_PUSHDATA1 THEN op
                     ELSE IF hdr > 0 THEN LEValue(Slice(s, n + 1, n + 1 + hdr))
                     ELSE IF IsRefOp(op) THEN RefLen
                     ELSE 0
             fits == n + 1 + hdr <= Len(s) /\ dlen <= Len(s) - (n + 1 + hdr)
             item == [pos |-> n, op |-> op, hdr |-> hdr, dlen |-> dlen, fits |-> fits]
         IN IF fits THEN <<item>> \o FrameFrom(s, n + 1 + hdr + dlen)
            ELSE <<item>>

Frame(s) == FrameFrom(s, 0)

\* The script is a whole number of items.
Framed(s) == \A i \in 1..Len(Frame(s)) : Frame(s)[i].fits

\* The payload bytes of an item
PayloadOf(s, item) ==
    Slice(s, item.pos + 1 + item.hdr, item.pos + 1 + item.hdr + item.dlen)

\* A signature-check opcode stands at an opcode position.
HasSigOp(s) == \E i \in 1..Len(Frame(s)) : IsSigOp(Frame(s)[i].op)

\* Position p (0-based) lies in the 36-byte payload of a reference opcode.
InRefPayload(s, p) ==
    \E i \in 1..Len(Frame(s)) :
        /\ IsRefOp(Frame(s)[i].op)
        /\ Frame(s)[i].pos < p
        /\ p <= Frame(s)[i].pos + RefLen

Returned(fn) == result.fn = fn /\ result.val.ok

(***************************************************************************)
(* Properties of the script walkers, checked under SpecScript.             *)
(***************************************************************************)

\* C2 (as claimed): in the list get_ops returns, every reference opcode is a
\* pair (op, payload) whose payload is the 36 bytes that follow it; it never
\* appears as a bare opcode with its payload bytes walked as opcodes.
C2_RefOpsCarryPayload ==
    Returned("get_ops") =>
        \A i \in 1..Len(result.val.ops) :
            IsRefOp(result.val.ops[i].op) =>
                /\ result.val.ops[i].push
                /\ Len(result.val.ops[i].data) = RefLen

\* C3 (as claimed): when zero_refs returns for a script with a signature-check
\* opcode, the result has the length of the script, is zero on the 36 payload
\* bytes of every reference opcode and equals the script everywhere else.
C3_ZeroRefsKeepsOtherBytes ==
    (Returned("zero_refs") /\ HasSigOp(script)) =>
        /\ Len(result.val.out) = Len(script)
        /\ \A p \in 0..(Len(script) - 1) :
              result.val.out[p + 1] =
                  IF InRefPayload(script, p) THEN 0 ELSE script[p + 1]

\* C4: when zero_refs returns for a script in which no signature-check opcode
\* stands at an opcode position, it returns the script itself, byte for byte,
\* whatever reference opcodes and payload bytes the script holds.
C4_NoSigReturnsScript ==
    (Returned("zero_refs") /\ ~HasSigOp(script)) => result.val.out = script

\* C4's case: a script without a signature-check opcode that holds a reference
\* opcode with a non-zero payload and a signature-check byte value inside a
\* payload.
C4_Witness ==
    /\ Returned("zero_refs")
    /\ ~HasSigOp(script)
    /\ \E p \in 0..(Len(script) - 1) : InRefPayload(script, p) /\ script[p + 1] # 0
    /\ \E p \in 0..(Len(script) - 1) : IsSigOp(script[p + 1])

ItemBytes(it, withLen) ==
    <<it.op>>
    \o (IF withLen THEN LEBytesOf(Len(it.data), HdrLen(it.op)) ELSE <<>>)
    \o it.data

RECURSIVE JoinFrom(_, _, _, _)
JoinFrom(ops, i, withLen, acc) ==
    IF i > Len(ops) THEN acc
    ELSE JoinFrom(ops, i + 1, withLen, acc \o ItemBytes(ops[i], withLen))

JoinOps(ops, withLen) == JoinFrom(ops, 1, withLen, <<>>)

\* C5 (as claimed): the opcode bytes and payloads of the items get_ops
\* returns, concatenated in order, are the script.
C5_ConcatOpsIsScript ==
    Returned("get_ops") => JoinOps(result.val.ops, FALSE) = script

\* C5 (amended): the concatenation is the script once the length bytes of
\* each OP_PUSHDATA1/2/4 item (the payload's length as 1, 2 or 4
\* little-endian bytes), which the item does not hold, are put back between
\* its opcode and its payload.
C5_ConcatWithLengthBytesIsScript ==
    Returned("get_ops") => JoinOps(result.val.ops, TRUE) = script

\* C5's case: get_ops returned an OP_PUSHDATA2 or OP_PUSHDATA4 item with a
\* payload, a direct push and a bare opcode, and opcodes and payloads alone do
\* not make up the script.
C5_Witness ==
    /\ Returned("get_ops")
    /\ \E i \in 1..Len(result.val.ops) :
          /\ result.val.ops[i].op \in {OP_PUSHDATA2, OP_PUSHDATA4}
          /\ Len(result.val.ops[i].data) > 0
    /\ \E i \in 1..Len(result.val.ops) :
          result.val.ops[i].push /\ result.val.ops[i].op < OP_PUSHDATA1
    /\ \E i \in 1..Len(result.val.ops) : ~result.val.ops[i].push
    /\ JoinOps(result.val.ops, FALSE) # script

\* The payloads of the items of the script whose opcode is in ops, in order
RefPayloads(s, ops) ==
    LET items == SelectSeq(Frame(s), LAMBDA it : it.op \in ops)
    IN [i \in 1..Len(items) |-> PayloadOf(s, items[i])]

\* C6: when get_push_input_refs returns, all_refs is the payloads of the
\* OP_PUSHINPUTREF and OP_PUSHINPUTREFSINGLETON occurrences in encounter order,
\* normal_refs those of OP_PUSHINPUTREF, singleton_refs those of
\* OP_PUSHINPUTREFSINGLETON; the other three reference opcodes skip their 36
\* bytes and add nothing.
C6_RefsInEncounterOrder ==
    Returned("get_push_input_refs") =>
        /\ Framed(script)
        /\ result.val.all_refs =
              RefPayloads(script, {OP_PUSHINPUTREF, OP_PUSHINPUTREFSINGLETON})
        /\ result.val.normal_refs = RefPayloads(script, {OP_PUSHINPUTREF})
        /\ result.val.singleton_refs = RefPayloads(script, {OP_PUSHINPUTREFSINGLETON})
        /\ Len(result.val.all_refs) =
              Len(result.val.normal_refs) + Len(result.val.singleton_refs)
        /\ \A i \in 1..Len(result.val.all_refs) : Len(result.val.all_refs[i]) = RefLen

\* C6's case: a script with a normal and a singleton reference and one of the
\* three opcodes that only skip their payload.
C6_Witness ==
    /\ Returned("get_push_input_refs")
    /\ Len(result.val.normal_refs) = 1
    /\ Len(result.val.singleton_refs) = 1
    /\ result.val.normal_refs # result.val.singleton_refs
    /\ \E i \in 1..Len(Frame(script)) :
          Frame(script)[i].op \in {OP_REQUIREINPUTREF, OP_DISALLOWPUSHINPUTREF,
                                   OP_DISALLOWPUSHINPUTREFSIBLING}

(***************************************************************************)
(* Integers of tx.py.  A Python int is held as its sign and its magnitude  *)
(* in little-endian bytes without leading zero bytes, so that the 32-, 64- *)
(* and 256-bit fields keep their full range.                               *)
(***************************************************************************)
\* b without its trailing zero bytes
Strip(b) ==
    LET nz == { i \in 1..Len(b) : b[i] # 0 }
    IN IF nz = {} THEN <<>>
       ELSE SubSeq(b, 1, CHOOSE i \in nz : \A j \in nz : j <= i)

Pad(m, k) == [i \in 1..k |-> IF i <= Len(m) THEN m[i] ELSE 0]

\* b + 1 on Len(b) bytes: the carry runs through the leading 255s
AddOne(b) ==
    LET low == { i \in 1..Len(b) : b[i] # 255 }
        k == IF low = {} THEN Len(b) + 1
             ELSE CHOOSE i \in low : \A j \in low : i <= j
    IN [i \in 1..Len(b) |-> IF i < k THEN 0 ELSE IF i = k THEN b[i] + 1 ELSE b[i]]

\* two's complement negation on Len(b) bytes
TwosNeg(b) == AddOne([i \in 1..Len(b) |-> 255 - b[i]])

\* struct '<I', '<Q', ... : the unsigned value of the bytes
Unsigned(b) == [neg |-> FALSE, mag |-> Strip(b)]

\* struct '<i', '<q': the two's complement value of the bytes
Signed(b) ==
    IF b[Len(b)] >= 128 THEN [neg |-> TRUE, mag |-> Strip(TwosNeg(b))]
    ELSE Unsigned(b)

\* a small natural number as a Python int
Num(n) == Unsigned(LEBytesOf(n, 4))

\* struct.pack of an unsigned / a signed field of k bytes accepts v
FitsUnsigned(v, k) == ~v.neg /\ Len(v.mag) <= k

FitsSigned(v, k) ==
    /\ Len(v.mag) <= k
    /\ IF v.neg THEN TwosNeg(Pad(v.mag, k))[k] >= 128 ELSE Pad(v.mag, k)[k] < 128

PackUnsigned(v, k) == Pad(v.mag, k)

PackSigned(v, k) == IF v.neg THEN TwosNeg(Pad(v.mag, k)) ELSE Pad(v.mag, k)

\* a >= b for non-negative a and b: magnitudes of equal length i, compared
\* at their most significant differing byte
MagGE(a, b, i) ==
    LET diff == { k \in 1..i : a[k] # b[k] }
    IN IF diff = {} THEN TRUE
       ELSE LET top == CHOOSE k \in diff : \A j \in diff : j <= k
            IN a[top] > b[top]

GE(a, b) ==
    IF Len(a.mag) # Len(b.mag) THEN Len(a.mag) > Len(b.mag)
    ELSE MagGE(a.mag, b.mag, Len(a.mag))

\* x & y on bytes
RECURSIVE ByteAnd(_, _, _)
ByteAnd(x, y, bit) ==
    IF bit > 128 THEN 0
    ELSE (IF (x \div bit) % 2 = 1 /\ (y \div bit) % 2 = 1 THEN bit ELSE 0)
         + ByteAnd(x, y, 2 * bit)

\* a & b for non-negative a and b
And(a, b) ==
    LET k == IF Len(a.mag) < Len(b.mag) THEN Len(a.mag) ELSE Len(b.mag)
    IN Unsigned([i \in 1..k |-> ByteAnd(a.mag[i], b.mag[i], 1)])

Truthy(v) == v.mag # <<>>

(***************************************************************************)
(* Contract tags (electrumx.lib.util): CONTRACT_FLAG is the high bit of    *)
(* the 64-bit tag, the four contract types are the flag with 1..4, and     *)
(* MAX_CONTRACT_TYPE is the largest of them.                               *)
(***************************************************************************)
CONTRACT_FLAG == Unsigned(<<0, 0, 0, 0, 0, 0, 0, 128>>)
CONTRACT_FT == Unsigned(<<1, 0, 0, 0, 0, 0, 0, 128>>)
CONTRACT_NFT == Unsigned(<<2, 0, 0, 0, 0, 0, 0, 128>>)
MAX_CONTRACT_TYPE == Unsigned(<<4, 0, 0, 0, 0, 0, 0, 128>>)

(***************************************************************************)
(* The records of tx.py.  An absent contract (None) is the empty sequence  *)
(* and a present one the sequence of the one TxContractOutput.             *)
(***************************************************************************)
Tx(version, inputs, outputs, locktime) ==
    [version |-> version, inputs |-> inputs, outputs |-> outputs,
     locktime |-> locktime]

TxInput(prev_hash, prev_idx, scr, sequence) ==
    [prev_hash |-> prev_hash, prev_idx |-> prev_idx, script |-> scr,
     sequence |-> sequence]

TxOutput(value, pk_script, contract) ==
    [value |-> value, pk_script |-> pk_script, contract |-> contract]

TxOutPoint(hash, index) == [hash |-> hash, index |-> index]

TxContractOutput(type, outpoint, value, max_supply, metadata) ==
    [type |-> type, outpoint |-> outpoint, value |-> value,
     max_supply |-> max_supply, metadata |-> metadata]

None == <<>>
Some(c) == <<c>>

(***************************************************************************)
(* pack_* of electrumx.lib.util and the serialize methods.                 *)
(***************************************************************************)
pack_le_int32(v) == PackSigned(v, 4)
pack_le_uint32(v) == PackUnsigned(v, 4)
pack_le_int64(v) == PackSigned(v, 8)
pack_le_uint64(v) == PackUnsigned(v, 8)
pack_le_uint256(v) == PackUnsigned(v, 32)

pack_varint(n) ==
    IF n < 253 THEN <<n>>
    ELSE IF n < 65536 THEN <<253>> \o LEBytesOf(n, 2)
    ELSE <<254>> \o LEBytesOf(n, 4)

pack_varbytes(data) == pack_varint(Len(data)) \o data

RECURSIVE JoinBytes(_)
JoinBytes(parts) ==
    IF parts = <<>> THEN <<>> ELSE Head(parts) \o JoinBytes(Tail(parts))

TxInput_serialize(txin) ==
    txin.prev_hash \o pack_le_uint32(txin.prev_idx) \o pack_varbytes(txin.script)
    \o pack_le_uint32(txin.sequence)

TxOutPoint_serialize(o) == o.hash \o pack_le_uint32(o.index)

TxContractOutput_serialize(c) ==
    pack_le_uint64(c.type) \o TxOutPoint_serialize(c.outpoint)
    \o pack_le_uint256(c.value) \o pack_le_uint256(c.max_supply)
    \o pack_varbytes(c.metadata)

TxOutput_serialize(txout) ==
    IF txout.contract # None THEN
        TxContractOutput_serialize(txout.contract[1])
        \o pack_le_uint64(txout.value) \o pack_varbytes(txout.pk_script)
    ELSE pack_le_int64(txout.value) \o pack_varbytes(txout.pk_script)

Tx_serialize(t) ==
    pack_le_int32(t.version)
    \o pack_varint(Len(t.inputs))
    \o JoinBytes([i \in 1..Len(t.inputs) |-> TxInput_serialize(t.inputs[i])])
    \o pack_varint(Len(t.outputs))
    \o JoinBytes([i \in 1..Len(t.outputs) |-> TxOutput_serialize(t.outputs[i])])
    \o pack_le_uint32(t.locktime)

(***************************************************************************)
(* The Deserializer's primitives on (binary, cursor): the value read and   *)
(* the cursor after it, or the exception raised and the cursor it leaves.  *)
(***************************************************************************)
Read(v, c) == [ok |-> TRUE, v |-> v, c |-> c]
Raise(err, c) == [ok |-> FALSE, err |-> err, c |-> c]

\* One statement after another: v is evaluated once and F continues with its
\* value.
Bind(v, F(_)) == CHOOSE out \in { F(x) : x \in {v} } : TRUE

\* unpack_from(binary, cursor) of a field of k bytes, then cursor += k
read_field(b, c, k, signed) ==
    IF Len(b) - c < k THEN Raise("struct.error", c)
    ELSE Read(IF signed THEN Signed(Slice(b, c, c + k))
              ELSE Unsigned(Slice(b, c, c + k)), c + k)

_read_le_int32(b, c) == read_field(b, c, 4, TRUE)
_read_le_int64(b, c) == read_field(b, c, 8, TRUE)
_read_le_uint32(b, c) == read_field(b, c, 4, FALSE)
_read_le_uint64(b, c) == read_field(b, c, 8, FALSE)
_read_uint256(b, c) == read_field(b, c, 32, FALSE)

\* a length or count: the unsigned value of the k bytes, or MaxInt when it
\* is beyond the model's integers (it is only compared with buffer lengths)
read_count(b, c, k) ==
    IF Len(b) - c < k THEN Raise("struct.error", c)
    ELSE Read(LEValue(Slice(b, c, c + k)), c + k)

_read_varint(b, c) ==
    IF c >= Len(b) THEN Raise("IndexError", c)
    ELSE LET n == b[c + 1]
         IN IF n < 253 THEN Read(n, c + 1)
            ELSE IF n = 253 THEN read_count(b, c + 1, 2)
            ELSE IF n = 254 THEN read_count(b, c + 1, 4)
            ELSE read_count(b, c + 1, 8)

\* the cursor is moved before the assert
_read_nbytes(b, c, n) ==
    IF n > Len(b) - c
    THEN Raise("AssertionError", IF n > MaxInt - c THEN MaxInt ELSE c + n)
    ELSE Read(Slice(b, c, c + n), c + n)

_read_varbytes(b, c) ==
    Bind(_read_varint(b, c), LAMBDA n :
        IF ~n.ok THEN n ELSE _read_nbytes(b, n.c, n.v))

(***************************************************************************)
(* The Deserializer's record readers.                                      *)
(***************************************************************************)
_read_input(b, c) ==
    Bind(_read_nbytes(b, c, 32), LAMBDA r1 : IF ~r1.ok THEN r1 ELSE
    Bind(_read_le_uint32(b, r1.c), LAMBDA r2 : IF ~r2.ok THEN r2 ELSE
    Bind(_read_varbytes(b, r2.c), LAMBDA r3 : IF ~r3.ok THEN r3 ELSE
    Bind(_read_le_uint32(b, r3.c), LAMBDA r4 : IF ~r4.ok THEN r4 ELSE
    Read(TxInput(r1.v, r2.v, r3.v, r4.v), r4.c)))))

RECURSIVE _read_inputs_loop(_, _, _, _)
_read_inputs_loop(b, c, n, acc) ==
    IF n = 0 THEN Read(acc, c)
    ELSE Bind(_read_input(b, c), LAMBDA r :
             IF ~r.ok THEN r
             ELSE _read_inputs_loop(b, r.c, n - 1, Append(acc, r.v)))

_read_inputs(b, c) ==
    Bind(_read_varint(b, c), LAMBDA n :
        IF ~n.ok THEN n ELSE _read_inputs_loop(b, n.c, n.v, <<>>))

_read_outpoint(b, c) ==
    Bind(_read_nbytes(b, c, 32), LAMBDA r1 : IF ~r1.ok THEN r1 ELSE
    Bind(_read_le_uint32(b, r1.c), LAMBDA r2 : IF ~r2.ok THEN r2 ELSE
    Read(TxOutPoint(r1.v, r2.v), r2.c)))

_read_contract_out(b, c) ==
    Bind(_read_le_uint64(b, c), LAMBDA r1 : IF ~r1.ok THEN r1 ELSE
    Bind(_read_outpoint(b, r1.c), LAMBDA r2 : IF ~r2.ok THEN r2 ELSE
    Bind(_read_uint256(b, r2.c), LAMBDA r3 : IF ~r3.ok THEN r3 ELSE
    Bind(_read_uint256(b, r3.c), LAMBDA r4 : IF ~r4.ok THEN r4 ELSE
    Bind(_read_varbytes(b, r4.c), LAMBDA r5 : IF ~r5.ok THEN r5 ELSE
    Read(TxContractOutput(r1.v, r2.v, r3.v, r4.v, r5.v), r5.c))))))

\* Mutant: the tag is not bounded by MAX_CONTRACT_TYPE.
is_contract_flag_only(contract_type) == Truthy(And(contract_type, CONTRACT_FLAG))

\* "contract_type & CONTRACT_FLAG and MAX_CONTRACT_TYPE >= contract_type"
is_contract(contract_type) ==
    /\ Truthy(And(contract_type, CONTRACT_FLAG))
    /\ GE(MAX_CONTRACT_TYPE, contract_type)

\* "self._read_le_int64()", the value field of _read_output
_read_output_value(b, c, contract_out) == _read_le_int64(b, c)

\* "if is_contract: contract_out = self._read_contract_out()", read from
\* the saved cursor
read_contract_if(b, _cursor, contract_type) ==
    IF is_contract(contract_type)
    THEN Bind(_read_contract_out(b, _cursor), LAMBDA r :
             IF r.ok THEN Read(Some(r.v), r.c) ELSE r)
    ELSE Read(None, _cursor)

_read_output(b, c) ==
    Bind(_read_le_uint64(b, c), LAMBDA peek : IF ~peek.ok THEN peek ELSE
    Bind(read_contract_if(b, c, peek.v), LAMBDA rc : IF ~rc.ok THEN rc ELSE
    Bind(_read_output_value(b, rc.c, rc.v), LAMBDA r1 : IF ~r1.ok THEN r1 ELSE
    Bind(_read_varbytes(b, r1.c), LAMBDA r2 : IF ~r2.ok THEN r2 ELSE
    Read(TxOutput(r1.v, r2.v, rc.v), r2.c)))))

RECURSIVE _read_outputs_loop(_, _, _, _)
_read_outputs_loop(b, c, n, acc) ==
    IF n = 0 THEN Read(acc, c)
    ELSE Bind(_read_output(b, c), LAMBDA r :
             IF ~r.ok THEN r
             ELSE _read_outputs_loop(b, r.c, n - 1, Append(acc, r.v)))

_read_outputs(b, c) ==
    Bind(_read_varint(b, c), LAMBDA n :
        IF ~n.ok THEN n ELSE _read_outputs_loop(b, n.c, n.v, <<>>))

read_tx(b, c) ==
    Bind(_read_le_int32(b, c), LAMBDA r1 : IF ~r1.ok THEN r1 ELSE
    Bind(_read_inputs(b, r1.c), LAMBDA r2 : IF ~r2.ok THEN r2 ELSE
    Bind(_read_outputs(b, r2.c), LAMBDA r3 : IF ~r3.ok THEN r3 ELSE
    Bind(_read_le_uint32(b, r3.c), LAMBDA r4 : IF ~r4.ok THEN r4 ELSE
    Read(Tx(r1.v, r2.v, r3.v, r4.v), r4.c)))))

(***************************************************************************)
(* Hashing.  sha256 and double_sha256 (electrumx.lib.hash) are injective   *)
(* symbols.  A message is a sequence of chunks, each a run of plain bytes  *)
(* or one digest, so that digests can be joined with bytes and hashed      *)
(* again.                                                                  *)
(***************************************************************************)
Raw(b) == IF b = <<>> THEN <<>> ELSE <<[t |-> "raw", v |-> b]>>

\* b''.join((m1, m2))
Cat(m1, m2) ==
    IF m1 # <<>> /\ m2 # <<>> /\ m1[Len(m1)].t = "raw" /\ m2[1].t = "raw"
    THEN SubSeq(m1, 1, Len(m1) - 1)
         \o <<[t |-> "raw", v |-> m1[Len(m1)].v \o m2[1].v]>>
         \o SubSeq(m2, 2, Len(m2))
    ELSE m1 \o m2

sha256(m) == <<[t |-> "sha256", v |-> m]>>

double_sha256(m) == [t |-> "double_sha256", v |-> m]

(***************************************************************************)
(* Deserializer.get_state: False, or the split position pc.                *)
(***************************************************************************)
PyFalse == [type |-> "bool", v |-> 0]
PyInt(n) == [type |-> "int", v |-> n]

\* Mutant: the length field is taken from the last four bytes.
state_len_pos_last4(L) == L - 4

\* "pc -= 5": where the four bytes of stateLen start
state_len_pos(L) == L - 5

\* Mutant: the byte before the split is not compared with OP_RETURN.
get_state_any_opcode(s) ==
    IF Len(s) < 1 + 0 + 4 + 1 THEN PyFalse
    ELSE LET pc == state_len_pos(Len(s))
             stateLen == unpack_le_uint32_from(Slice(s, pc, pc + 4))
         IN IF Len(s) - (1 + 4 + 1) < stateLen THEN PyFalse
            ELSE PyInt(pc - stateLen)

get_state(s) ==
    IF Len(s) < 1 + 0 + 4 + 1 THEN PyFalse
    ELSE LET pc == state_len_pos(Len(s))
             stateLen == unpack_le_uint32_from(Slice(s, pc, pc + 4))
         IN IF Len(s) - (1 + 4 + 1) < stateLen THEN PyFalse
            ELSE IF s[(pc - stateLen - 1) + 1] # OP_RETURN THEN PyFalse
            ELSE PyInt(pc - stateLen)

(***************************************************************************)
(* The version-2 identifier.                                               *)
(***************************************************************************)
RECURSIVE get_hashinputs_loop(_, _, _)
get_hashinputs_loop(ins, i, acc) ==
    IF i > Len(ins) THEN acc
    ELSE LET txin == ins[i]
             inputhash == Cat(Cat(Cat(Raw(txin.prev_hash),
                                      Raw(pack_le_uint32(txin.prev_idx))),
                                  sha256(Raw(txin.script))),
                              Raw(pack_le_uint32(txin.sequence)))
         IN get_hashinputs_loop(ins, i + 1, Cat(acc, sha256(inputhash)))

get_hashinputs(t) == sha256(get_hashinputs_loop(t.inputs, 1, <<>>))

\* the bytes hashed for one output
outputhash(txout) ==
    LET pc == get_state(txout.pk_script)
        head == Cat(Cat(IF txout.contract # None
                        THEN Raw(TxContractOutput_serialize(txout.contract[1]))
                        ELSE <<>>,
                        Raw(pack_le_uint64(txout.value))),
                    sha256(Raw(txout.pk_script)))
    IN IF pc.v # 0
       THEN Cat(Cat(head, sha256(Raw(Slice(txout.pk_script, 0, pc.v)))),
                sha256(Raw(Slice(txout.pk_script, pc.v, Len(txout.pk_script)))))
       ELSE head

RECURSIVE get_hashoutputs_loop(_, _, _)
get_hashoutputs_loop(outs, i, acc) ==
    IF i > Len(outs) THEN Read(acc, 0)
    ELSE IF ~FitsUnsigned(outs[i].value, 8) THEN Raise("struct.error", 0)
    ELSE get_hashoutputs_loop(outs, i + 1, Cat(acc, sha256(outputhash(outs[i]))))

get_hashoutputs(t) ==
    LET r == get_hashoutputs_loop(t.outputs, 1, <<>>)
    IN IF r.ok THEN Read(sha256(r.v), 0) ELSE r

get_richtransaction(t) ==
    LET hashInputs == get_hashinputs(t)
        hashoutputs == get_hashoutputs(t)
    IN IF ~hashoutputs.ok THEN hashoutputs
       ELSE IF ~FitsUnsigned(t.version, 4) THEN Raise("struct.error", 0)
       ELSE Read(double_sha256(
                Cat(Cat(Cat(Cat(Cat(Raw(pack_le_uint32(t.version)),
                                    Raw(pack_le_int32(Num(Len(t.inputs))))),
                                hashInputs),
                            Raw(pack_le_int32(Num(Len(t.outputs))))),
                        hashoutputs.v),
                    Raw(pack_le_uint32(t.locktime)))), 0)

(***************************************************************************)
(* Deserializer.read_tx_and_hash                                           *)
(***************************************************************************)
\* Mutant: the bytes hashed start at the beginning of the buffer.
hashed_bytes_from_zero(b, from, to) == Slice(b, 0, to)

\* "self.binary[start:self.cursor]"
hashed_bytes(b, from, to) == Slice(b, from, to)

read_tx_and_hash(b, c) ==
    Bind(read_tx(b, c), LAMBDA the_tx :
        IF ~the_tx.ok THEN the_tx
        ELSE IF the_tx.v.version = Num(2) THEN
            Bind(get_richtransaction(the_tx.v), LAMBDA h :
                IF ~h.ok THEN Raise(h.err, the_tx.c)
                ELSE Read([tx |-> the_tx.v, hash |-> h.v], the_tx.c))
        ELSE Read([tx |-> the_tx.v,
                   hash |-> double_sha256(Raw(hashed_bytes(b, c, the_tx.c)))],
                  the_tx.c))

(***************************************************************************)
(* Deserializer.read_tx_and_vsize: the transaction and the length of the   *)
(* whole buffer, "self.binary_length".                                     *)
(***************************************************************************)
read_tx_and_vsize(b, c) ==
    Bind(read_tx(b, c), LAMBDA the_tx :
        IF ~the_tx.ok THEN the_tx
        ELSE Read([tx |-> the_tx.v, vsize |-> Len(b)], the_tx.c))

(***************************************************************************)
(* The records explored.                                                   *)
(***************************************************************************)
Hash32(x) == [i \in 1..32 |-> x]

U32Max == Unsigned(<<255, 255, 255, 255>>)

P2PKH == <<118, 169, 2, 1, 2, 136, OP_CHECKSIG>>

\* OP_1 OP_RETURN <2 state bytes> <LE u32 2> <1 byte>
StateScript == <<81, OP_RETURN, 7, 7, 2, 0, 0, 0, 0>>

ContractFT ==
    TxContractOutput(CONTRACT_FT, TxOutPoint(Hash32(171), Num(1)),
                     Num(21000000), Unsigned(Hash32(255)), <<>>)

ContractNFT ==
    TxContractOutput(CONTRACT_NFT, TxOutPoint(Hash32(0), U32Max),
                     Num(1), Num(1), <<109, 101, 116, 97>>)

\* values: 1000, -1, -2^63 + 1 (as u64: CONTRACT_FLAG | 1), 2^63
V1000 == Num(1000)
VMinus1 == Signed(<<255, 255, 255, 255, 255, 255, 255, 255>>)
VMinPlus1 == Signed(<<1, 0, 0, 0, 0, 0, 0, 128>>)
VTwo63 == Unsigned(<<0, 0, 0, 0, 0, 0, 0, 128>>)

TxOutputs ==
    { TxOutput(V1000, P2PKH, None),
      TxOutput(VMinus1, StateScript, None),
      TxOutput(VMinPlus1, <<>>, None),
      TxOutput(V1000, P2PKH, Some(ContractFT)),
      TxOutput(VTwo63, StateScript, Some(ContractNFT)) }

TxInputs ==
    { TxInput(Hash32(0), U32Max, <<3, 1, 2, 3>>, U32Max),
      TxInput(Hash32(171), Num(1), <<>>, Num(0)) }

Versions == { Num(1), Num(2), Signed(<<255, 255, 255, 255>>) }

Locktimes == { Num(0), U32Max }

SeqsUpTo(S, n) == UNION { [1..k -> S] : k \in 0..n }

Txs ==
    { Tx(v, ins, outs, lt) :
        v \in Versions, ins \in SeqsUpTo(TxInputs, MaxInputs),
        outs \in SeqsUpTo(TxOutputs, MaxOutputs), lt \in Locktimes }

\* bytes before the record (the Deserializer starts after them) and after it
Prefixes == { <<>>, <<9, 9>> }
Suffixes == { <<>>, <<7>> }

(***************************************************************************)
(* The Deserializer on a serialized transaction.                           *)
(***************************************************************************)
InitTx ==
    /\ tx \in Txs
    /\ \E pre \in Prefixes, post \in Suffixes :
          /\ binary = pre \o Tx_serialize(tx) \o post
          /\ start = Len(pre)
          /\ cursor = Len(pre)
    /\ script = <<>>
    /\ result = NoResult

CallReadTx ==
    /\ result.fn = "none"
    /\ result' = [fn |-> "read_tx", val |-> read_tx(binary, cursor)]
    /\ cursor' = result'.val.c
    /\ UNCHANGED <<script, tx, binary, start>>

CallReadTxAndHash ==
    /\ result.fn = "none"
    /\ result' = [fn |-> "read_tx_and_hash", val |-> read_tx_and_hash(binary, cursor)]
    /\ cursor' = result'.val.c
    /\ UNCHANGED <<script, tx, binary, start>>

CallReadTxAndVsize ==
    /\ result.fn = "none"
    /\ result' = [fn |-> "read_tx_and_vsize", val |-> read_tx_and_vsize(binary, cursor)]
    /\ cursor' = result'.val.c
    /\ UNCHANGED <<script, tx, binary, start>>

NextTx == CallReadTx \/ CallReadTxAndHash \/ CallReadTxAndVsize

SpecTx == InitTx /\ [][NextTx]_vars

(***************************************************************************)
(* Properties of read_tx and read_tx_and_hash.                             *)
(***************************************************************************)
\* C1: read_tx on tx.serialize() returns a record equal to tx and leaves
\* the cursor at the end of the serialized bytes, for every Tx record whose
\* fields are within the range of their wire width.
C1_RoundTrip ==
    (result.fn = "read_tx" /\ start = 0 /\ binary = Tx_serialize(tx)) =>
        /\ result.val.ok
        /\ result.val.v = tx
        /\ cursor = Len(binary)

\* C7: read_tx_and_hash started at cursor c0 returns, for a version other
\* than 2, double_sha256 of exactly the bytes binary[c0 .. cursor] that
\* read_tx consumed, and for version 2 the rich-transaction identifier of
\* the parsed record, which is not the hash of the raw bytes.
C7_HashOfConsumedBytes ==
    Returned("read_tx_and_hash") =>
        LET the_tx == result.val.v.tx
            h == result.val.v.hash
            rawhash == double_sha256(Raw(Slice(binary, start, cursor)))
        IN /\ the_tx = read_tx(binary, start).v
           /\ cursor = read_tx(binary, start).c
           /\ the_tx.version # Num(2) => h = rawhash
           /\ the_tx.version = Num(2) =>
                 /\ h = get_richtransaction(the_tx).v
                 /\ h # rawhash

\* a transaction of version 1 with an input and a contract output, read
\* from the middle of a buffer that continues after it
C7_Witness ==
    /\ Returned("read_tx_and_hash")
    /\ result.val.v.tx.version = Num(1)
    /\ start > 0
    /\ cursor < Len(binary)
    /\ Len(result.val.v.tx.inputs) > 0
    /\ \E i \in 1..Len(result.val.v.tx.outputs) :
          result.val.v.tx.outputs[i].contract # None
    /\ result.val.v.hash = double_sha256(Raw(Slice(binary, start, cursor)))

\* a transaction of version 2 whose identifier was computed
C7_WitnessRich ==
    /\ Returned("read_tx_and_hash")
    /\ result.val.v.tx.version = Num(2)
    /\ Len(result.val.v.tx.outputs) > 0

(***************************************************************************)
(* Deserializer._read_output on one serialized output.  The variable tx    *)
(* holds the TxOutput record whose bytes are in binary.                    *)
(***************************************************************************)
U64Max == Unsigned(<<255, 255, 255, 255, 255, 255, 255, 255>>)

\* type tags that are not contract types: CONTRACT_FLAG | 5, and 3
TagAboveMax == Unsigned(<<5, 0, 0, 0, 0, 0, 0, 128>>)
TagNoFlag == Num(3)

ContractOfType(type, c) ==
    TxContractOutput(type, c.outpoint, c.value, c.max_supply, c.metadata)

OutputContracts ==
    { ContractFT, ContractNFT, ContractOfType(MAX_CONTRACT_TYPE, ContractFT),
      ContractOfType(CONTRACT_FLAG, ContractNFT),
      ContractOfType(TagAboveMax, ContractNFT),
      ContractOfType(TagNoFlag, ContractNFT) }

OutputScripts == { <<>>, P2PKH }

OutputRecords ==
    { TxOutput(v, pk, None) :
        v \in { Num(0), V1000, VMinus1, VMinPlus1 }, pk \in OutputScripts }
    \cup
    { TxOutput(v, pk, Some(c)) :
        v \in { Num(0), V1000, VTwo63, U64Max }, pk \in OutputScripts,
        c \in OutputContracts }

InitOutput ==
    /\ tx \in OutputRecords
    /\ \E pre \in Prefixes, post \in Suffixes :
          /\ binary = pre \o TxOutput_serialize(tx) \o post
          /\ start = Len(pre)
          /\ cursor = Len(pre)
    /\ script = <<>>
    /\ result = NoResult

CallReadOutput ==
    /\ result.fn = "none"
    /\ result' = [fn |-> "_read_output", val |-> _read_output(binary, cursor)]
    /\ cursor' = result'.val.c
    /\ UNCHANGED <<script, tx, binary, start>>

CallReadContractOut ==
    /\ result.fn = "none"
    /\ result' = [fn |-> "_read_contract_out",
                  val |-> _read_contract_out(binary, cursor)]
    /\ cursor' = result'.val.c
    /\ UNCHANGED <<script, tx, binary, start>>

NextOutput == CallReadOutput \/ CallReadContractOut

SpecOutput == InitOutput /\ [][NextOutput]_vars

\* the tag: the little-endian u64 in the first 8 bytes of the encoding
LeadingTag == Unsigned(Slice(binary, start, start + 8))

TagIsContract ==
    /\ Truthy(And(LeadingTag, CONTRACT_FLAG))
    /\ GE(MAX_CONTRACT_TYPE, LeadingTag)

\* C9: a parsed output has a contract iff the tag in its first 8 bytes has
\* CONTRACT_FLAG set and is at most MAX_CONTRACT_TYPE; the peek restores the
\* cursor, so a contract's type equals the tag and a non-contract output's
\* value is decoded from those same 8 bytes.
C9_ContractIffTag ==
    Returned("_read_output") =>
        LET out == result.val.v
        IN /\ (out.contract # None) <=> TagIsContract
           /\ out.contract # None => out.contract[1].type = LeadingTag
           /\ out.contract = None =>
                 out.value = Signed(Slice(binary, start, start + 8))

\* a contract output parsed from the middle of a buffer
C9_Witness ==
    /\ Returned("_read_output")
    /\ start > 0
    /\ result.val.v.contract # None
    /\ result.val.v.contract[1].type = CONTRACT_NFT
    /\ result.val.v.pk_script = P2PKH

\* an output whose tag has the flag set but exceeds MAX_CONTRACT_TYPE and
\* which is parsed as an ordinary output
C9_WitnessAboveMax ==
    /\ Returned("_read_output")
    /\ Truthy(And(LeadingTag, CONTRACT_FLAG))
    /\ ~GE(MAX_CONTRACT_TYPE, LeadingTag)
    /\ result.val.v.contract = None

\* where the value field of a parsed contract output starts
ValueFieldPos(out) == start + Len(TxContractOutput_serialize(out.contract[1]))

\* C10: the value field that follows the TxContractOutput is decoded as an
\* unsigned little-endian u64, so every on-wire value in 0 .. 2^64-1 is
\* returned as that same non-negative number; only non-contract outputs
\* decode the value as signed i64.
C10_ContractValueUnsigned ==
    Returned("_read_output") =>
        LET out == result.val.v
        IN /\ out.contract # None =>
                 /\ out.value = Unsigned(Slice(binary, ValueFieldPos(out),
                                               ValueFieldPos(out) + 8))
                 /\ ~out.value.neg
           /\ out.contract = None =>
                 out.value = Signed(Slice(binary, start, start + 8))

(***************************************************************************)
(* Deserializer.get_state and get_hashoutputs on one pk_script.  The       *)
(* variable tx holds a transaction whose only output carries the script.   *)
(***************************************************************************)
State20 == [i \in 1..20 |-> 7]

\* the state bytes explored: every string of at most MaxState bytes over
\* {7, OP_RETURN}, and one of 20 bytes
StateBytes == SeqsUpTo({7, OP_RETURN}, MaxState) \cup { State20 }

\* the length fields explored for a state of n bytes
StateLenFields(n) ==
    { LEBytesOf(n, 4), LEBytesOf(n + 1, 4), LEBytesOf(0, 4),
      <<0, 0, 0, 128>>, <<255, 255, 255, 255>> }

\* <payload> <OP_RETURN or another opcode> <state> <length field> <tail>
ScriptsOfState(st) ==
    { payload \o <<op>> \o st \o lenfield \o tail :
        payload \in { <<>>, <<81>> }, op \in { OP_RETURN, 81 },
        lenfield \in StateLenFields(Len(st)),
        tail \in { <<>>, <<0>>, <<1>> } }

StateScripts ==
    UNION { ScriptsOfState(st) : st \in StateBytes }
    \cup SeqsUpTo({0, OP_RETURN}, 3)

TxOfScript(s) == Tx(Num(2), <<>>, <<TxOutput(V1000, s, None)>>, Num(0))

InitState ==
    /\ script \in StateScripts
    /\ tx = TxOfScript(script)
    /\ binary = <<>>
    /\ start = 0
    /\ cursor = 0
    /\ result = NoResult

CallGetState ==
    /\ result.fn = "none"
    /\ result' = [fn |-> "get_state", val |-> [ok |-> TRUE, v |-> get_state(script)]]
    /\ UNCHANGED <<script, tx, binary, start, cursor>>

CallGetHashOutputs ==
    /\ result.fn = "none"
    /\ result' = [fn |-> "get_hashoutputs", val |-> get_hashoutputs(tx)]
    /\ UNCHANGED <<script, tx, binary, start, cursor>>

NextState == CallGetState \/ CallGetHashOutputs

SpecState == InitState /\ [][NextState]_vars

\* The split of a script of length L whose length field starts back bytes
\* before the end: stateLen is the little-endian u32 at L-back .. L-back+4,
\* pc == L - back - stateLen, and there is a split when L >= 6,
\* L >= 1 + stateLen + 4 + 1 and the byte before pc is OP_RETURN.
StateLenBack(s, back) == LEValue(Slice(s, Len(s) - back, Len(s) - back + 4))

SplitPc(s, back) == Len(s) - back - StateLenBack(s, back)

HasSplit(s, back) ==
    /\ Len(s) >= 6
    /\ Len(s) - (1 + 4 + 1) >= StateLenBack(s, back)
    /\ s[SplitPc(s, back)] = OP_RETURN

\* what get_state returns and what get_hashoutputs hashes, given the offset
GetStateIs(back) ==
    Returned("get_state") =>
        result.val.v = IF HasSplit(script, back)
                       THEN PyInt(SplitPc(script, back))
                       ELSE PyFalse

PreimageHead(txout) ==
    Cat(Raw(pack_le_uint64(txout.value)), sha256(Raw(txout.pk_script)))

GetHashOutputsIs(back) ==
    Returned("get_hashoutputs") =>
        LET txout == tx.outputs[1]
            pk == txout.pk_script
            pc == SplitPc(pk, back)
            split == Cat(sha256(Raw(Slice(pk, 0, pc))),
                         sha256(Raw(Slice(pk, pc, Len(pk)))))
        IN result.val.v =
              sha256(sha256(IF HasSplit(pk, back)
                            THEN Cat(PreimageHead(txout), split)
                            ELSE PreimageHead(txout)))

\* <payload> OP_RETURN <20 state bytes> <LE u32 20>, and the same followed
\* by one more byte
IsScenario(s) ==
    \E payload \in { <<>>, <<81>> } :
        s = payload \o <<OP_RETURN>> \o State20 \o LEBytesOf(20, 4)

IsScenarioWithTail(s) ==
    \E t \in { 0, 1 } : Len(s) > 0 /\ s[Len(s)] = t
                        /\ IsScenario(Slice(s, 0, Len(s) - 1))

\* C8: get_state decodes stateLen from the last 4 bytes (positions L-4..L)
\* and reports a split exactly when L >= 6, L >= 1 + stateLen + 4 + 1 and
\* pk_script[pc-1] = OP_RETURN for pc = L - 4 - stateLen, returning pc; a
\* script <payload> OP_RETURN <20 state bytes> <LE u32 20> yields pc = L - 24
\* and get_hashoutputs appends sha256(pk[0..pc]) || sha256(pk[pc..L]).
C8_StateLenInLastFour ==
    /\ GetStateIs(4)
    /\ (Returned("get_state") /\ IsScenario(script)) =>
           result.val.v = PyInt(Len(script) - 24)
    /\ GetHashOutputsIs(4)

\* What the code does where C8 speaks of the last four bytes: stateLen is
\* the little-endian u32 in the four bytes before the last byte (positions L-5..L-1), there is a split exactly
\* when L >= 6, L >= 1 + stateLen + 4 + 1 and pk_script[pc-1] = OP_RETURN
\* for pc = L - 5 - stateLen, and pc is returned; a script <payload>
\* OP_RETURN <20 state bytes> <LE u32 20> <one byte> yields pc = L - 25 and
\* get_hashoutputs appends sha256(pk[0..pc]) || sha256(pk[pc..L]) exactly
\* when there is a split.
C8_StateLenBeforeLastByte ==
    /\ GetStateIs(5)
    /\ (Returned("get_state") /\ IsScenarioWithTail(script)) =>
           result.val.v = PyInt(Len(script) - 25)
    /\ GetHashOutputsIs(5)

\* the scenario with a last byte: the split is found and hashed
C8_Witness ==
    /\ Returned("get_hashoutputs")
    /\ IsScenarioWithTail(script)
    /\ HasSplit(script, 5)
    /\ SplitPc(script, 5) = Len(script) - 25
    /\ ~HasSplit(script, 4)

\* the scenario as the claim writes it, with a payload of at most one
\* byte: get_state reads 00 14 00 00 as the length and finds no split
C8_WitnessNoTail ==
    /\ Returned("get_state")
    /\ IsScenario(script)
    /\ result.val.v = PyFalse

(***************************************************************************)
(* Truncated scripts, checked under SpecScript.                            *)
(***************************************************************************)
\* a walker raised ScriptError with this message and returned nothing
RaisedScriptError(fn, msg) == result.fn = fn /\ result.val = ScriptError(msg)

\* a reference opcode stands at an opcode position
HasRefOp(s) == \E i \in 1..Len(Frame(s)) : IsRefOp(Frame(s)[i].op)

\* the script ends with OP_PUSHDATA1 and the length byte 0, as an item
EndsWithEmptyPushdata1(s) ==
    /\ Framed(s)
    /\ Len(Frame(s)) > 0
    /\ Frame(s)[Len(Frame(s))].op = OP_PUSHDATA1
    /\ Frame(s)[Len(Frame(s))].dlen = 0

\* every push item get_ops returned has the length the script declares
PayloadsHaveDeclaredLength(s, ops) ==
    /\ \A i \in 1..Len(ops) :
          (ops[i].push /\ ops[i].op < OP_PUSHDATA1) => Len(ops[i].data) = ops[i].op
    /\ ~HasRefOp(s) =>
          /\ Len(ops) = Len(Frame(s))
          /\ \A i \in 1..Len(ops) :
                ops[i].push => Len(ops[i].data) = Frame(s)[i].dlen

C11_ZeroRefsPart ==
    (result.fn = "zero_refs" /\ ~Framed(script)) =>
        RaisedScriptError("zero_refs", "truncated script")

C11_PushInputRefsPart ==
    (result.fn = "get_push_input_refs" /\ ~Framed(script)) =>
        RaisedScriptError("get_push_input_refs", "get_push_input_refs script")

C11_GetOpsPart ==
    /\ (result.fn = "get_ops" /\ ~Framed(script)) =>
           RaisedScriptError("get_ops", "truncated script")
    /\ Returned("get_ops") =>
           PayloadsHaveDeclaredLength(script, result.val.ops)
    /\ (result.fn = "get_ops" /\ EndsWithEmptyPushdata1(script)) =>
           /\ result.val.ok
           /\ result.val.ops[Len(result.val.ops)] = Pair(OP_PUSHDATA1, <<>>)

\* C11: whenever the length bytes of an OP_PUSHDATA1/2/4 are missing or a
\* declared payload length, the 36 bytes of a reference opcode included,
\* runs past the end of the script, get_ops and zero_refs raise
\* ScriptError('truncated script') and get_push_input_refs raises
\* ScriptError('get_push_input_refs script'); on success every push payload
\* has its declared length, and a script ending in OP_PUSHDATA1 00 parses
\* with an empty payload.
C11_TruncationRaises ==
    /\ C11_GetOpsPart
    /\ C11_ZeroRefsPart
    /\ C11_PushInputRefsPart

(***************************************************************************)
(* Deserializer.read_tx_block and Deserializer._read_byte                  *)
(***************************************************************************)
\* the cursor is moved before the byte is indexed
_read_byte(b, c) ==
    IF c >= Len(b) THEN Raise("IndexError", c + 1) ELSE Read(b[c + 1], c + 1)

\* "unpack_be_uint16_from(self.binary, self.cursor)"; no reader calls it
_read_be_uint16(b, c) ==
    IF Len(b) - c < 2 THEN Raise("struct.error", c)
    ELSE Read(256 * b[c + 1] + b[c + 2], c + 2)

\* Variant: one transaction more than the count is read.
block_count_plus_one(n) == n + 1

\* "range(self._read_varint())"
block_count(n) == n

RECURSIVE read_tx_block_loop(_, _, _, _)
read_tx_block_loop(b, c, n, acc) ==
    IF n = 0 THEN Read(acc, c)
    ELSE Bind(read_tx_and_hash(b, c), LAMBDA r :
             IF ~r.ok THEN r
             ELSE read_tx_block_loop(b, r.c, n - 1, Append(acc, r.v)))

read_tx_block(b, c) ==
    Bind(_read_varint(b, c), LAMBDA n :
        IF ~n.ok THEN n ELSE read_tx_block_loop(b, n.c, block_count(n.v), <<>>))

(***************************************************************************)
(* Blocks: a count and that many serialized transactions, after a prefix   *)
(* and before a suffix, or cut short.  The variable tx holds the sequence  *)
(* of the block's transactions.                                            *)
(***************************************************************************)
MaxTxs == 2

BlockInput == TxInput(Hash32(171), Num(1), <<3, 1, 2, 3>>, U32Max)

BlockTxs ==
    { Tx(Num(1), <<BlockInput>>, <<TxOutput(V1000, P2PKH, None)>>, Num(0)),
      Tx(Num(1), <<>>, <<>>, U32Max),
      Tx(Num(2), <<BlockInput>>, <<TxOutput(V1000, StateScript, Some(ContractNFT))>>,
         Num(0)),
      Tx(Num(2), <<>>, <<TxOutput(VMinus1, <<>>, None)>>, Num(0)) }

Blocks == SeqsUpTo(BlockTxs, MaxTxs)

Block_serialize(txs) ==
    pack_varint(Len(txs))
    \o JoinBytes([i \in 1..Len(txs) |-> Tx_serialize(txs[i])])

\* what follows a block: nothing, a byte, or bytes that read as a transaction
BlockSuffixes == Suffixes \cup { Tx_serialize(Tx(Num(1), <<>>, <<>>, Num(0))) }

\* The buffers: whole blocks between a prefix and a suffix, and every proper
\* beginning of a block.  The Deserializer is constructed at the block's
\* count or, skipping it, at the first transaction.
InitBlock ==
    /\ tx \in Blocks
    /\ \E skip \in {0, 1} :
          \/ \E pre \in Prefixes, post \in BlockSuffixes :
                /\ binary = pre \o Block_serialize(tx) \o post
                /\ start = Len(pre) + skip
          \/ \E cut \in 1..Len(Block_serialize(tx)) :
                /\ binary = Slice(Block_serialize(tx), 0,
                                  Len(Block_serialize(tx)) - cut)
                /\ start = skip
                /\ start <= Len(binary)
    /\ cursor = start
    /\ script = <<>>
    /\ result = NoResult

CallReadTxBlock ==
    /\ result.fn = "none"
    /\ result' = [fn |-> "read_tx_block", val |-> read_tx_block(binary, cursor)]
    /\ cursor' = result'.val.c
    /\ UNCHANGED <<script, tx, binary, start>>

NextBlock ==
    CallReadTxBlock \/ CallReadTx \/ CallReadTxAndHash \/ CallReadTxAndVsize

SpecBlock == InitBlock /\ [][NextBlock]_vars

(***************************************************************************)
(* Reads past the end of the buffer, checked under SpecBlock.              *)
(***************************************************************************)
\* the first thing to fail in read_tx_block's n transactions from c is a
\* read, not the computation of an identifier
RECURSIVE FirstFailureIsRead(_, _, _)
FirstFailureIsRead(b, c, n) ==
    IF n = 0 THEN FALSE
    ELSE IF ~read_tx(b, c).ok THEN TRUE
    ELSE IF ~read_tx_and_hash(b, c).ok THEN FALSE
    ELSE FirstFailureIsRead(b, read_tx(b, c).c, n - 1)

\* the call failed on a read that went past the end of binary
ReadPastEnd ==
    /\ ~result.val.ok
    /\ \/ result.fn = "read_tx"
       \/ result.fn = "read_tx_and_vsize"
       \/ result.fn = "read_tx_and_hash" /\ ~read_tx(binary, start).ok
       \/ /\ result.fn = "read_tx_block"
          /\ \/ ~_read_varint(binary, start).ok
             \/ FirstFailureIsRead(binary, _read_varint(binary, start).c,
                                   _read_varint(binary, start).v)

\* the kind of exception of a fixed-width read at the end of the buffer
FormatErrorKind == _read_le_int32(binary, Len(binary)).err

\* the kinds the primitives raise for a read at the end of the buffer
PastEndKinds ==
    { _read_byte(binary, Len(binary)).err,
      _read_nbytes(binary, Len(binary), 1).err,
      _read_varbytes(binary, Len(binary)).err,
      _read_varint(binary, Len(binary)).err,
      _read_be_uint16(binary, Len(binary)).err,
      _read_le_int32(binary, Len(binary)).err,
      _read_le_int64(binary, Len(binary)).err,
      _read_le_uint32(binary, Len(binary)).err,
      _read_le_uint64(binary, Len(binary)).err,
      _read_uint256(binary, Len(binary)).err }

\* C12: a read that would go past the end of the buffer, reached through
\* read_tx, read_tx_and_hash or read_tx_block, fails and returns no short or
\* default value (a returned result has consumed bytes of the buffer only),
\* and it fails with one and the same kind of error whichever primitive hit
\* the end.
C12_OneFormatErrorKind ==
    /\ (result.fn \in {"read_tx", "read_tx_and_hash", "read_tx_and_vsize",
                       "read_tx_block"}
        /\ result.val.ok) => cursor <= Len(binary)
    /\ ReadPastEnd => result.val.err = FormatErrorKind

\* the part of C12 that the code keeps: no result is returned for a read
\* past the end, and the failure is one of the primitives' kinds
C12_FailsPastEnd ==
    /\ (result.fn \in {"read_tx", "read_tx_and_hash", "read_tx_and_vsize",
                       "read_tx_block"}
        /\ result.val.ok) => cursor <= Len(binary)
    /\ ReadPastEnd => result.val.err \in PastEndKinds

(***************************************************************************)
(* read_tx_block, checked under SpecBlock.  The variable tx holds the      *)
(* sequence of transactions whose block is in binary.                      *)
(***************************************************************************)
\* where the i-th transaction of the block read at c starts: after the
\* count for i = 1, and where read_tx left the cursor for the one before
RECURSIVE TxStart(_, _, _)
TxStart(b, c, i) ==
    IF i = 1 THEN _read_varint(b, c).c
    ELSE read_tx(b, TxStart(b, c, i - 1)).c

\* binary is a prefix, the block of tx and a suffix, read from the block's
\* first byte
BlockAligned ==
    \E pre \in Prefixes, post \in BlockSuffixes :
        /\ binary = pre \o Block_serialize(tx) \o post
        /\ start = Len(pre)

\* C13: read_tx_block reads a varint count N and then exactly N
\* transactions in stream order and returns N (tx, hash) pairs, the i-th
\* being what read_tx_and_hash returns where the one before ended; the
\* cursor stops at the end of the N-th transaction, the bytes after it
\* raise no error and have no influence on the result, and the bytes hashed
\* for successive transactions of a version other than 2 are the
\* contiguous, non-overlapping ranges between these positions.
C13_ExactlyNTransactions ==
    Returned("read_tx_block") =>
        LET N == _read_varint(binary, start).v
            pairs == result.val.v
        IN /\ Len(pairs) = N
           /\ \A i \in 1..N :
                 LET from == TxStart(binary, start, i)
                     to == TxStart(binary, start, i + 1)
                 IN /\ from < to
                    /\ pairs[i] = read_tx_and_hash(binary, from).v
                    /\ pairs[i].tx = read_tx(binary, from).v
                    /\ pairs[i].tx.version # Num(2) =>
                          pairs[i].hash =
                              double_sha256(Raw(Slice(binary, from, to)))
           /\ cursor = TxStart(binary, start, N + 1)
           /\ cursor <= Len(binary)
           /\ read_tx_block(Slice(binary, 0, cursor), start) = result.val
           /\ BlockAligned =>
                 /\ N = Len(tx)
                 /\ \A i \in 1..N : pairs[i].tx = tx[i]

\* a block of two version-1 transactions read from the middle of a buffer
\* that continues after the second one
C13_Witness ==
    /\ Returned("read_tx_block")
    /\ BlockAligned
    /\ start > 0
    /\ cursor < Len(binary)
    /\ Len(result.val.v) = 2
    /\ \A i \in 1..2 : result.val.v[i].tx.version = Num(1)
    /\ Len(result.val.v[1].tx.inputs) > 0
    /\ result.val.v[2].hash =
          double_sha256(Raw(Slice(binary, TxStart(binary, start, 2), cursor)))

\* a block with a version-1 and a version-2 transaction
C13_WitnessRich ==
    /\ Returned("read_tx_block")
    /\ Len(result.val.v) = 2
    /\ result.val.v[1].tx.version = Num(2)
    /\ result.val.v[2].tx.version = Num(1)

\* an empty block followed by bytes
C13_WitnessEmpty ==
    /\ Returned("read_tx_block")
    /\ BlockAligned
    /\ result.val.v = <<>>
    /\ cursor = start + 1
    /\ cursor < Len(binary)

(***************************************************************************)
(* The range of get_state's result, checked under SpecState.               *)
(***************************************************************************)
\* both length tests of get_state pass: L >= 6 and L >= 1 + stateLen + 4 + 1
LengthTestsPass(s) ==
    /\ Len(s) >= 1 + 0 + 4 + 1
    /\ Len(s) - (1 + 4 + 1) >= StateLenBack(s, 5)

\* the 0-based index "pc - 1" that get_state compares with OP_RETURN
InspectedIndex(s) == SplitPc(s, 5) - 1

\* Python's truthiness of what get_state returns: "if pc"
IfPc(r) == r.v # 0

\* C14: for every script of length L, get_state returns False or an integer
\* pc with 1 <= pc <= L - 5 and script[pc-1] = OP_RETURN; it never returns 0
\* as a split, the index pc-1 it inspects is within 0 .. L-1, and
\* get_hashoutputs' test "if pc" appends the two digests of the split
\* exactly when get_state returned a position.
C14_SplitInRange ==
    /\ Returned("get_state") =>
          LET L == Len(script)
              r == result.val.v
          IN /\ \/ r = PyFalse
                \/ /\ r.type = "int"
                   /\ 1 <= r.v /\ r.v <= L - 5
                   /\ script[(r.v - 1) + 1] = OP_RETURN
             /\ r # PyInt(0)
             /\ IfPc(r) <=> r.type = "int"
             /\ LengthTestsPass(script) => InspectedIndex(script) \in 0..(L - 1)
    /\ Returned("get_hashoutputs") =>
          LET txout == tx.outputs[1]
              pk == txout.pk_script
              r == get_state(pk)
              split == Cat(sha256(Raw(Slice(pk, 0, r.v))),
                           sha256(Raw(Slice(pk, r.v, Len(pk)))))
          IN result.val.v =
                sha256(sha256(IF r.type = "int"
                              THEN Cat(PreimageHead(txout), split)
                              ELSE PreimageHead(txout)))

\* the smallest split: OP_RETURN is the first byte and a state follows
C14_Witness ==
    /\ Returned("get_state")
    /\ result.val.v = PyInt(1)
    /\ Len(script) > 6
    /\ InspectedIndex(script) = 0

\* the largest split: an empty state, pc = L - 5, after a payload
C14_WitnessUpper ==
    /\ Returned("get_state")
    /\ result.val.v = PyInt(Len(script) - 5)
    /\ Len(script) > 6

\* the length tests pass and the inspected byte is not OP_RETURN
C14_WitnessNoOpReturn ==
    /\ Returned("get_state")
    /\ LengthTestsPass(script)
    /\ result.val.v = PyFalse

\* a length field larger than the script: False without looking at a byte
C14_WitnessTooLong ==
    /\ Returned("get_state")
    /\ Len(script) >= 6
    /\ ~LengthTestsPass(script)
    /\ result.val.v = PyFalse

\* get_hashoutputs on a script with a split and on one without
C14_WitnessHashed ==
    /\ Returned("get_hashoutputs")
    /\ get_state(script).type = "int"

(***************************************************************************)
(* The identifier of every parsed transaction, checked under SpecTx.       *)
(***************************************************************************)
\* an output of the parsed transaction has a negative value
HasNegativeValue(the_tx) ==
    \E i \in 1..Len(the_tx.outputs) : the_tx.outputs[i].value.neg

\* C15: on every buffer and start cursor on which read_tx succeeds,
\* read_tx_and_hash succeeds too, leaves the cursor where read_tx leaves it
\* and returns the parsed transaction with an identifier; for version 2 the
\* rich-transaction hash is computed for every output value _read_output
\* can return, negative ones included, with or without a contract.
C15_IdentifierTotal ==
    (result.fn = "read_tx_and_hash" /\ read_tx(binary, start).ok) =>
        /\ result.val.ok
        /\ result.val.v.tx = read_tx(binary, start).v
        /\ cursor = read_tx(binary, start).c
        /\ result.val.v.tx.version = Num(2) =>
              result.val.v.hash = get_richtransaction(result.val.v.tx).v

\* the part of C15 that the code keeps: the identifier is computed unless
\* the transaction has version 2 and an output with a negative value
C15_TotalOnNonNegative ==
    (result.fn = "read_tx_and_hash" /\ read_tx(binary, start).ok) =>
        LET the_tx == read_tx(binary, start).v
        IN IF the_tx.version = Num(2) /\ HasNegativeValue(the_tx)
           THEN /\ ~result.val.ok
                /\ result.val.err = "struct.error"
                /\ cursor = read_tx(binary, start).c
           ELSE /\ result.val.ok
                /\ result.val.v.tx = the_tx

====
